---- MODULE Spec2Model ----
(***************************************************************************)
(* Residential compliance rules over an IFC building model: dwelling area, *)
(* living-area height, service-space height, living-room compliance and    *)
(* bedroom occupancy, in both calling conventions (check_* lists of        *)
(* records, *_check summary dictionaries).                                 *)
(*                                                                         *)
(* Units.  Lengths are whole decimetres and areas whole square decimetres  *)
(* (0.01 m2), so every threshold of the code is an integer: 5.0 m2 = 500,  *)
(* 2.4*2.4 m2 = 576, 36.0 m2 = 3600, 2.50 m = 25, 2.20 m = 22.  Text is a  *)
(* sequence of one-character strings, so that lower() and the substring    *)
(* test "k in text" are computed, character by character.                  *)
(***************************************************************************)
EXTENDS Integers, Sequences, FiniteSets, TLC

\* ------------------------------------------------------------------------
\* Bounds of the exploration
\* ------------------------------------------------------------------------
MaxSpaces == 2

\* significant binary digits a floating-point value keeps (53 in the build;
\* scaled down with the unit of 0.01 m2 so that rounding is within reach)
MantissaBits == 11

\* ------------------------------------------------------------------------
\* Text: str.lower(), "k in text", str(int)
\* ------------------------------------------------------------------------
UpperChars == <<"A","B","C","D","E","F","G","H","I","J","K","L","M",
                "N","O","P","Q","R","S","T","U","V","W","X","Y","Z">>
LowerChars == <<"a","b","c","d","e","f","g","h","i","j","k","l","m",
                "n","o","p","q","r","s","t","u","v","w","x","y","z">>

lower_char(c) ==
  IF \E i \in 1..Len(UpperChars) : UpperChars[i] = c
  THEN LowerChars[CHOOSE i \in 1..Len(UpperChars) : UpperChars[i] = c]
  ELSE c

lower(s) == [i \in 1..Len(s) |-> lower_char(s[i])]

\* Python's "k in t" on strings
contains(t, k) ==
  \E i \in 0..(Len(t) - Len(k)) : SubSeq(t, i + 1, i + Len(k)) = k

any_keyword(t, keywords) == \E k \in keywords : contains(t, k)

DigitChars == <<"0","1","2","3","4","5","6","7","8","9">>

RECURSIVE str_int(_)
str_int(n) ==
  IF n < 10 THEN <<DigitChars[n + 1]>>
  ELSE str_int(n \div 10) \o <<DigitChars[(n % 10) + 1]>>

\* Python None for a text attribute; the empty string is << >>.  Both are
\* falsy.
None == <<"<None>">>
truthy(s) == s # None /\ s # << >>

\* ------------------------------------------------------------------------
\* Keyword lists
\* ------------------------------------------------------------------------
kw_living    == <<"l","i","v","i","n","g">>
kw_bedroom   == <<"b","e","d","r","o","o","m">>
kw_hall      == <<"h","a","l","l">>
kw_kitchen   == <<"k","i","t","c","h","e","n">>

main_living_keywords == { kw_living, kw_bedroom, kw_hall }

service_keywords ==
  { <<"b","a","t","h">>, <<"b","a","t","h","r","o","o","m">>,
    <<"b","a","ñ","o">>, <<"b","a","n","o">>, <<"w","c">>,
    <<"t","o","i","l","e","t">>,
    kw_kitchen, <<"c","o","c","i","n","a">>,
    kw_hall, <<"h","a","l","l","w","a","y">>,
    <<"c","o","r","r","i","d","o","r">>, <<"p","a","s","i","l","l","o">> }

bedroom_keywords ==
  { kw_bedroom, <<"h","a","b","i","t","a","c","i","o","n">>,
    <<"h","a","b","i","t","a","c","i","ó","n">>,
    <<"d","o","r","m","i","t","o","r","i","o">> }

living_keywords ==
  { kw_living, <<"s","a","l","o","n">>, <<"s","a","l","ó","n">>,
    <<"s","t","u","d","i","o">>, <<"e","s","t","u","d","i","o">>,
    <<"c","o","m","m","o","n">> }

\* ------------------------------------------------------------------------
\* Geometry: the triangle mesh of a space
\*   shape.ok = FALSE : create_shape raises (no representation)
\*   verts : flat x,y,z coordinates;  faces : flat vertex indices (0-based)
\* ------------------------------------------------------------------------
Max(a, b) == IF a >= b THEN a ELSE b
Min(a, b) == IF a <= b THEN a ELSE b

\* floor of the square root, by bisection on lo..hi
RECURSIVE isqrt_between(_, _, _)
isqrt_between(x, lo, hi) ==
  IF lo >= hi THEN lo
  ELSE LET mid == (lo + hi + 1) \div 2
       IN IF mid * mid <= x THEN isqrt_between(x, mid, hi)
                            ELSE isqrt_between(x, lo, mid - 1)

isqrt(x) == isqrt_between(x, 0, Min(x, 40000))

\* Python slice verts[i:i+3] with i >= 0: shorter (or empty) past the end
slice3(verts, i) ==
  IF i >= Len(verts) THEN << >>
  ELSE SubSeq(verts, i + 1, Min(i + 3, Len(verts)))

\* squared Euclidean distance of two 3-D points
dist2(p, q) ==
  (q[1]-p[1])*(q[1]-p[1]) + (q[2]-p[2])*(q[2]-p[2]) + (q[3]-p[3])*(q[3]-p[3])

\* Heron's formula, sqrt(max(s(s-a)(s-b)(s-c), 0)), in exact arithmetic on
\* the squared edge lengths A = a^2, B = b^2, C = c^2:
\*   16 s(s-a)(s-b)(s-c) = 4AB - (A + B - C)^2
heron(A, B, C) ==
  isqrt(Max(4 * A * B - (A + B - C) * (A + B - C), 0)) \div 4

\* One pass of the loop body with explicit coordinate indexing
\* (v1[0]-v0[0] ...): raises when a vertex slice has fewer than 3 entries.
tri_indexed(verts, faces, i) ==
  IF i + 3 > Len(faces) THEN [ok |-> FALSE, area |-> 0]
  ELSE LET v0 == slice3(verts, faces[i + 1] * 3)
           v1 == slice3(verts, faces[i + 2] * 3)
           v2 == slice3(verts, faces[i + 3] * 3)
       IN IF Len(v0) < 3 \/ Len(v1) < 3 \/ Len(v2) < 3
          THEN [ok |-> FALSE, area |-> 0]
          ELSE [ok |-> TRUE,
                area |-> heron(dist2(v0, v1), dist2(v1, v2), dist2(v2, v0))]

\* math.dist(p, q): raises when the points differ in dimension, and is the
\* distance over the shared coordinates otherwise (0.0 for two empty points)
RECURSIVE dist2_n(_, _)
dist2_n(p, q) ==
  IF Len(p) = 0 THEN 0
  ELSE (q[1]-p[1])*(q[1]-p[1]) + dist2_n(Tail(p), Tail(q))

\* One pass of the loop body with math.dist
tri_dist(verts, faces, i) ==
  IF i + 3 > Len(faces) THEN [ok |-> FALSE, area |-> 0]
  ELSE LET v0 == slice3(verts, faces[i + 1] * 3)
           v1 == slice3(verts, faces[i + 2] * 3)
           v2 == slice3(verts, faces[i + 3] * 3)
       IN IF Len(v0) # Len(v1) \/ Len(v1) # Len(v2)
          THEN [ok |-> FALSE, area |-> 0]
          ELSE [ok |-> TRUE,
                area |-> heron(dist2_n(v0, v1), dist2_n(v1, v2), dist2_n(v2, v0))]

\* Floating point: a value with more than MantissaBits significant binary
\* digits is rounded to the nearest representable one, ties to even
RECURSIVE float_spacing(_, _)
float_spacing(x, q) ==
  IF x \div q < 2^MantissaBits THEN q ELSE float_spacing(x, 2 * q)

float_round(x) ==
  LET q  == float_spacing(x, 1)
      lo == (x \div q) * q
      r  == x - lo
  IN IF 2 * r < q THEN lo
     ELSE IF 2 * r > q THEN lo + q
     ELSE IF (x \div q) % 2 = 0 THEN lo ELSE lo + q

\* area += x
float_add(area, x) == float_round(area + x)

\* for i in range(0, len(faces), 3): area += ...   (ok = FALSE: raised)
RECURSIVE sum_indexed(_, _, _, _)
sum_indexed(verts, faces, i, acc) ==
  IF i >= Len(faces) THEN [ok |-> TRUE, area |-> acc]
  ELSE LET t == tri_indexed(verts, faces, i)
       IN IF ~t.ok THEN [ok |-> FALSE, area |-> acc]
          ELSE sum_indexed(verts, faces, i + 3, float_add(acc, t.area))

RECURSIVE sum_dist(_, _, _, _)
sum_dist(verts, faces, i, acc) ==
  IF i >= Len(faces) THEN [ok |-> TRUE, area |-> acc]
  ELSE LET t == tri_dist(verts, faces, i)
       IN IF ~t.ok THEN [ok |-> FALSE, area |-> acc]
          ELSE sum_dist(verts, faces, i + 3, float_add(acc, t.area))

\* try: ... return float(area)  except Exception: return 0.0
mesh_area_indexed(shape) ==
  IF ~shape.ok THEN 0
  ELSE LET r == sum_indexed(shape.verts, shape.faces, 0, 0)
       IN IF r.ok THEN r.area ELSE 0

mesh_area_dist(shape) ==
  IF ~shape.ok THEN 0
  ELSE LET r == sum_dist(shape.verts, shape.faces, 0, 0)
       IN IF r.ok THEN r.area ELSE 0

\* variant: the slice starts one coordinate early and takes the y values
zs_of_ys(verts) == { verts[i] : i \in { j \in 1..Len(verts) : j % 3 = 2 } }

\* zs = verts[2::3]
zs_of(verts) == { verts[i] : i \in { j \in 1..Len(verts) : j % 3 = 0 } }

SetMax(S) == CHOOSE x \in S : \A y \in S : y <= x
SetMin(S) == CHOOSE x \in S : \A y \in S : x <= y

\* get_space_height: 0.0 when create_shape raises, when there are no
\* vertices, and when max() of an empty slice raises
\* variant: a storey height of 2.50 is assumed when the shape cannot be
\* read
get_space_height_assumed(space) ==
  IF ~space.shape.ok THEN 25
  ELSE IF Len(space.shape.verts) = 0 THEN 25
  ELSE IF zs_of(space.shape.verts) = {} THEN 25
  ELSE SetMax(zs_of(space.shape.verts)) - SetMin(zs_of(space.shape.verts))

get_space_height(space) ==
  IF ~space.shape.ok THEN 0
  ELSE IF Len(space.shape.verts) = 0 THEN 0
  ELSE IF zs_of(space.shape.verts) = {} THEN 0
  ELSE SetMax(zs_of(space.shape.verts)) - SetMin(zs_of(space.shape.verts))

\* ------------------------------------------------------------------------
\* The building model: model.by_type("IfcSpace") is a sequence of spaces.
\* A space: LongName, Name (text or None), GlobalId, id() (the step id),
\* NetFloorArea (present or not) and the shape create_shape gives.
\* ------------------------------------------------------------------------
Box(w, d, h) ==
  [ok |-> TRUE,
   verts |-> << 0,0,0,  w,0,0,  w,d,0,  0,d,0,
                0,0,h,  w,0,h,  w,d,h,  0,d,h >>,
   faces |-> << 0,1,2,  0,2,3,  4,5,6,  4,6,7 >>]

NoShape   == [ok |-> FALSE, verts |-> << >>, faces |-> << >>]
EmptyMesh == [ok |-> TRUE,  verts |-> << >>, faces |-> << >>]

t_Living_Room    == <<"L","i","v","i","n","g"," ","R","o","o","m">>
t_Living_Kitchen == <<"L","i","v","i","n","g","/","K","i","t","c","h","e","n">>
t_Living         == <<"L","i","v","i","n","g">>
t_Bedroom        == <<"B","e","d","r","o","o","m">>
t_Bathroom       == <<"B","a","t","h","r","o","o","m">>
t_Hall           == <<"H","a","l","l">>
t_Studio         == <<"S","t","u","d","i","o">>
t_Salon          == <<"S","a","l","o","n">>
t_Storage        == <<"S","t","o","r","a","g","e">>
t_101            == <<"1","0","1">>
t_Unnamed        == <<"U","n","n","a","m","e","d">>
t_Space_Hash     == <<"S","p","a","c","e"," ","#">>

SpaceKind(long, name, has, nfa, shape) ==
  [LongName |-> long, Name |-> name,
   hasNetFloorArea |-> has, NetFloorArea |-> nfa, shape |-> shape]

\* The kinds of space the explored models are made of
SpaceKinds ==
  << SpaceKind(t_Living_Room, t_101,            FALSE, 0,    Box(40, 30, 26)),
     SpaceKind(None,          t_Living_Kitchen, FALSE, 0,    Box(30, 20, 25)),
     SpaceKind(None,          t_Bedroom,        TRUE,  1200, Box(20, 10, 24)),
     SpaceKind(None,          t_Bedroom,        FALSE, 0,    Box(35, 10, 25)),
     SpaceKind(None,          t_Bathroom,       FALSE, 0,    Box(10, 10, 20)),
     SpaceKind(None,          t_Hall,           FALSE, 0,    Box(25, 10, 22)),
     SpaceKind(None,          t_Studio,         FALSE, 0,    Box(15, 10, 25)),
     SpaceKind(t_Salon,       << >>,            FALSE, 0,    Box(25, 30, 27)),
     SpaceKind(None,          t_Living,         FALSE, 0,    NoShape),
     SpaceKind(None,          None,             FALSE, 0,    Box(25, 40, 25)),
     SpaceKind(<< >>,         t_Living,         TRUE,  500,  EmptyMesh),
     SpaceKind(None,          t_Storage,        FALSE, 0,    Box(25, 40, 25)),
     SpaceKind(None,          t_Bedroom,        FALSE, 0,    NoShape),
     SpaceKind(None,          t_Hall,           FALSE, 0,    EmptyMesh),
     SpaceKind(t_Hall,        t_101,            FALSE, 0,    Box(25, 10, 25)) >>

\* GlobalId and step id come from the position in the file
GlobalIdOf(i) ==
  IF i % 2 = 1 THEN <<"0","k","W","c">> \o str_int(i)
               ELSE <<"2","O","2","F">> \o str_int(i)

SpaceAt(kind, i) ==
  [LongName |-> SpaceKinds[kind].LongName, Name |-> SpaceKinds[kind].Name,
   hasNetFloorArea |-> SpaceKinds[kind].hasNetFloorArea,
   NetFloorArea |-> SpaceKinds[kind].NetFloorArea,
   shape |-> SpaceKinds[kind].shape,
   GlobalId |-> GlobalIdOf(i), id |-> i]

KindSeqs(n) == [1..n -> 1..Len(SpaceKinds)]

Models ==
  UNION { { [i \in 1..n |-> SpaceAt(ks[i], i)] : ks \in KindSeqs(n) }
          : n \in 0..MaxSpaces }

MinAreas   == {0, 3600, 4500}
MinHeights == {22, 25}

\* ------------------------------------------------------------------------
\* Labels: the "or" chains of the different files
\* ------------------------------------------------------------------------
\* LongName or Name or f"Space #{space.id()}"
get_space_label(space) ==
  IF truthy(space.LongName) THEN space.LongName
  ELSE IF truthy(space.Name) THEN space.Name
  ELSE t_Space_Hash \o str_int(space.id)

\* LongName or Name or "Unnamed"
_space_label(space) ==
  IF truthy(space.LongName) THEN space.LongName
  ELSE IF truthy(space.Name) THEN space.Name
  ELSE t_Unnamed

\* LongName, then Name, then GlobalId
get_space_name(space) ==
  IF truthy(space.LongName) THEN space.LongName
  ELSE IF truthy(space.Name) THEN space.Name
  ELSE space.GlobalId

\* space.Name or f"Space #{space.id()}"
height_space_name(space) ==
  IF truthy(space.Name) THEN space.Name
  ELSE t_Space_Hash \o str_int(space.id)

\* s.Name or "Unnamed"
height_room_name(space) ==
  IF truthy(space.Name) THEN space.Name ELSE t_Unnamed

\* ------------------------------------------------------------------------
\* Area of a space, as each file computes it
\* ------------------------------------------------------------------------
\* checker_dwelling.py, toola.py: mesh only, explicit indexing
calculate_space_area_dwelling(space) == mesh_area_indexed(space.shape)

\* checker_occupancy.py, toole.py: mesh only, math.dist
calculate_space_area_occupancy(space) == mesh_area_dist(space.shape)

\* checker_living_rooms.py, toolc.py: NetFloorArea first
uses_net_floor_area(space) ==
  space.hasNetFloorArea /\ space.NetFloorArea # 0

calculate_space_area_living(space) ==
  IF uses_net_floor_area(space) THEN space.NetFloorArea
  ELSE mesh_area_indexed(space.shape)

\* ------------------------------------------------------------------------
\* Result records and dictionaries
\* ------------------------------------------------------------------------
\* comment: None, or its parts (one text for the living-room rule, where
\* the messages are joined by "; ")
NoComment      == [null |-> TRUE,  parts |-> << >>]
Comment(parts) == [null |-> FALSE, parts |-> parts]

CheckResult(id, name, context, status, actual, required, comment) ==
  [element_id |-> id, element_type |-> "IfcSpace", element_name |-> name,
   element_name_long |-> [label |-> name, context |-> context],
   check_status |-> status, actual_value |-> actual,
   required_value |-> required, comment |-> comment, log |-> "None"]

\* A dict is the sequence of its items [key, value] in insertion order
EmptyDict == << >>

dict_keys(d) == { d[i].key : i \in 1..Len(d) }

\* d[k]
dict_get(d, k) == d[CHOOSE i \in 1..Len(d) : d[i].key = k].value

\* d[k] = v: an existing key keeps its place and takes the new value
dict_set(d, k, v) ==
  IF k \in dict_keys(d)
  THEN [i \in 1..Len(d) |-> IF d[i].key = k THEN [key |-> k, value |-> v] ELSE d[i]]
  ELSE Append(d, [key |-> k, value |-> v])

\* the first n spaces of a sequence (all of them when it is shorter)
FirstN(spaces, n) == [i \in 1..Min(n, Len(spaces)) |-> spaces[i]]

RECURSIVE SeqSum(_)
SeqSum(s) == IF Len(s) = 0 THEN 0 ELSE s[1] + SeqSum(Tail(s))

\* ------------------------------------------------------------------------
\* Rule 1: dwelling total area
\* ------------------------------------------------------------------------
\* variant: strict comparison of the total with the minimum
dwelling_status_strict(total_area, min_area) ==
  IF total_area > min_area THEN "pass" ELSE "fail"

dwelling_status(total_area, min_area) ==
  IF total_area >= min_area THEN "pass" ELSE "fail"

\* the calls completed before, where a run keeps them (the last two, each
\* with its parameter and result)
VARIABLE history

\* variant: results is a list of the module that keeps the records of the
\* call completed just before
new_results_kept ==
  IF history # << >> /\ history[Len(history)].call = "check_dwelling_area"
  THEN history[Len(history)].retval
  ELSE << >>

\* results = []
new_results == << >>

check_dwelling_area(model, min_area) ==
  LET area(i)   == calculate_space_area_dwelling(model[i])
      total_area == SeqSum([i \in 1..Len(model) |-> area(i)])
      results == new_results \o
                 [i \in 1..Len(model) |->
                   CheckResult(model[i].GlobalId, get_space_label(model[i]),
                               "dwelling area check", "pass",
                               [m2 |-> area(i)], [m2 |-> min_area], NoComment)]
      status == dwelling_status(total_area, min_area)
  IN IF Len(results) = 0 THEN results
     ELSE [i \in 1..Len(results) |->
            [results[i] EXCEPT
               !.check_status = status,
               !.comment = IF status = "fail"
                           THEN Comment(<<[msg |-> "Total dwelling area below required",
                                           total |-> total_area,
                                           required |-> min_area]>>)
                           ELSE @]]

RECURSIVE room_areas_dwelling(_, _)
room_areas_dwelling(model, n) ==
  IF n = 0 THEN EmptyDict
  ELSE dict_set(room_areas_dwelling(model, n - 1),
                _space_label(model[n]),
                calculate_space_area_dwelling(model[n]))

dwelling_area_check(model, min_area) ==
  LET total_area == SeqSum([i \in 1..Len(model) |->
                             calculate_space_area_dwelling(model[i])])
      room_areas == room_areas_dwelling(model, Len(model))
  IN IF total_area >= min_area
     THEN [result |-> "pass",
           reason |-> [msg |-> "Total useful area >=",
                       total |-> total_area, required |-> min_area],
           total_area |-> total_area, room_areas |-> room_areas]
     ELSE [result |-> "fail",
           reason |-> [msg |-> "Total useful area <",
                       total |-> total_area, required |-> min_area],
           total_area |-> total_area, room_areas |-> room_areas]

\* ------------------------------------------------------------------------
\* Rule 2: living-area minimum height
\* ------------------------------------------------------------------------
\* s.Name and any(keyword in s.Name.lower() for keyword in [...])
is_main_living_area(space) ==
  truthy(space.Name) /\ any_keyword(lower(space.Name), main_living_keywords)

\* variant: no keyword filter, every space is a main living area
get_main_living_areas_all(model) == model

get_main_living_areas(model) == SelectSeq(model, is_main_living_area)

\* variant: a height equal to the minimum fails
height_passes_strict(height, min_height) == height > min_height

height_passes(height, min_height) == height >= min_height

height_record(space, name, context, min_height) ==
  LET height == get_space_height(space)
  IN CheckResult(space.GlobalId, name, context,
                 IF height_passes(height, min_height) THEN "pass" ELSE "fail",
                 [m |-> height], [m |-> min_height],
                 IF height_passes(height, min_height) THEN NoComment
                 ELSE Comment(<<[msg |-> "Height below required",
                                 height |-> height, required |-> min_height]>>))

check_living_area_height(model, min_height) ==
  LET spaces == get_main_living_areas(model)
  IN [i \in 1..Len(spaces) |->
       height_record(spaces[i], height_space_name(spaces[i]),
                     "living area", min_height)]

\* for s in spaces: ... if height < min_height: return fail
\* n: spaces already handled; the result carries the number of spaces
\* whose height was measured
RECURSIVE living_area_height_loop(_, _, _, _)
living_area_height_loop(spaces, min_height, n, room_heights) ==
  IF n >= Len(spaces)
  THEN [result |-> "pass",
        reason |-> [msg |-> "All main living areas meet minimum height",
                    required |-> min_height],
        room_heights |-> room_heights, measured |-> n]
  ELSE LET s == spaces[n + 1]
           height == get_space_height(s)
           rh == dict_set(room_heights, height_room_name(s), height)
       IN IF height < min_height
          THEN [result |-> "fail",
                reason |-> [msg |-> "height below", room |-> height_room_name(s),
                            required |-> min_height],
                room_heights |-> rh, measured |-> n + 1]
          ELSE living_area_height_loop(spaces, min_height, n + 1, rh)

\* variant: only the first main living area is measured
living_area_height_check_first_only(model, min_height) ==
  living_area_height_loop(FirstN(get_main_living_areas(model), 1),
                          min_height, 0, EmptyDict)

living_area_height_check(model, min_height) ==
  living_area_height_loop(get_main_living_areas(model), min_height, 0, EmptyDict)

\* ------------------------------------------------------------------------
\* Rule 3: service-space minimum height
\* ------------------------------------------------------------------------
is_service_space(space_name_lower) ==
  any_keyword(space_name_lower, service_keywords)

is_service(space) == is_service_space(lower(get_space_name(space)))

\* variant: the records are returned last space first
check_service_spaces_min_height_last_first(model, min_height) ==
  LET spaces == SelectSeq(model, is_service)
  IN [i \in 1..Len(spaces) |->
       height_record(spaces[Len(spaces) + 1 - i],
                     get_space_name(spaces[Len(spaces) + 1 - i]),
                     "service space", min_height)]

check_service_spaces_min_height(model, min_height) ==
  LET spaces == SelectSeq(model, is_service)
  IN [i \in 1..Len(spaces) |->
       height_record(spaces[i], get_space_name(spaces[i]),
                     "service space", min_height)]

RECURSIVE service_spaces_loop(_, _, _, _, _)
service_spaces_loop(model, min_height, n, room_heights, checked_spaces) ==
  IF n >= Len(model)
  THEN IF checked_spaces = << >>
       THEN [result |-> "fail",
             reason |-> [msg |-> "No bathrooms/kitchens/hallways matched by keywords, nothing checked"],
             room_heights |-> room_heights, checked_spaces |-> checked_spaces]
       ELSE [result |-> "pass",
             reason |-> [msg |-> "All checked bathrooms/kitchens/hallways meet minimum height",
                         required |-> min_height],
             room_heights |-> room_heights, checked_spaces |-> checked_spaces]
  ELSE LET space == model[n + 1]
           label == get_space_name(space)
       IN IF ~is_service_space(lower(label))
          THEN service_spaces_loop(model, min_height, n + 1,
                                   room_heights, checked_spaces)
          ELSE LET h  == get_space_height(space)
                   cs == Append(checked_spaces, label)
                   rh == dict_set(room_heights, label, h)
               IN IF h < min_height
                  THEN [result |-> "fail",
                        reason |-> [msg |-> "height below", room |-> label,
                                    required |-> min_height],
                        room_heights |-> rh, checked_spaces |-> cs]
                  ELSE service_spaces_loop(model, min_height, n + 1, rh, cs)

\* variant: the loop starts with a non-empty list of checked spaces, so the
\* "nothing checked" test never fires
service_spaces_min_height_check_no_empty_test(model, min_height) ==
  LET out == service_spaces_loop(model, min_height, 0, EmptyDict, <<t_Unnamed>>)
  IN [out EXCEPT !.checked_spaces = Tail(@)]

service_spaces_min_height_check(model, min_height) ==
  service_spaces_loop(model, min_height, 0, EmptyDict, << >>)

\* ------------------------------------------------------------------------
\* Rule 4: living-room compliance
\* ------------------------------------------------------------------------
LIVING_MIN_AREA         == 1000
LIVING_KITCHEN_MIN_AREA == 1400
CLEARANCE_SIDE          == 24

\* variant: the square needs five times its own area
can_fit_square_with_margin(area_m2, width, depth) == area_m2 >= 5 * width * depth

\* float(area_m2) >= float(width) * float(depth)
can_fit_square(area_m2, width, depth) == area_m2 >= width * depth

\* variant: the combined living+kitchen threshold is never applied
living_min_area_no_kitchen(name) == LIVING_MIN_AREA

living_min_area(name) ==
  IF contains(name, kw_kitchen) THEN LIVING_KITCHEN_MIN_AREA ELSE LIVING_MIN_AREA

living_passed(area, min_area) ==
  area >= min_area /\ can_fit_square(area, CLEARANCE_SIDE, CLEARANCE_SIDE)

\* f"{x:.2f}" of a non-negative value held in hundredths
fmt2(n) ==
  str_int(n \div 100) \o <<".">>
    \o <<DigitChars[((n % 100) \div 10) + 1], DigitChars[(n % 10) + 1]>>

\* sep.join(texts)
RECURSIVE join(_, _)
join(sep, texts) ==
  IF Len(texts) = 0 THEN << >>
  ELSE IF Len(texts) = 1 THEN texts[1]
  ELSE texts[1] \o sep \o join(sep, Tail(texts))

t_semicolon == <<";"," ">>
t_Area      == <<"A","r","e","a"," ">>
t_lt_required == <<" ","m","²"," ","<"," ","r","e","q","u","i","r","e","d"," ">>
t_m2        == <<" ","m","²">>
t_no_square ==
  <<"D","o","e","s"," ","n","o","t"," ","a","l","l","o","w"," ","2",".",
    "4","0"," ","m"," ","x"," ","2",".","4","0"," ","m"," ","s","q","u",
    "a","r","e"," ","(","a","p","p","r","o","x",")">>
t_Complies  == <<"C","o","m","p","l","i","e","s">>

\* f"Area {area:.2f} m² < required {min_area:.2f} m²"
area_message(area, min_area) ==
  t_Area \o fmt2(area) \o t_lt_required \o fmt2(min_area) \o t_m2

\* variant: the clearance message is appended before the area message
living_reasons_clearance_first(area, min_area) ==
  (IF ~can_fit_square(area, CLEARANCE_SIDE, CLEARANCE_SIDE)
   THEN <<t_no_square>> ELSE << >>)
  \o
  (IF area < min_area THEN <<area_message(area, min_area)>> ELSE << >>)

living_reasons(area, min_area) ==
  (IF area < min_area THEN <<area_message(area, min_area)>> ELSE << >>)
  \o
  (IF ~can_fit_square(area, CLEARANCE_SIDE, CLEARANCE_SIDE)
   THEN <<t_no_square>> ELSE << >>)

\* variant: only negative areas are skipped
living_room_evaluated_keep_zero(space) ==
  /\ ~(calculate_space_area_living(space) < 0)
  /\ contains(lower(get_space_name(space)), kw_living)

\* if area <= 0: continue;  if "living" in name: ...
living_room_evaluated(space) ==
  /\ ~(calculate_space_area_living(space) <= 0)
  /\ contains(lower(get_space_name(space)), kw_living)

check_living_room_compliance(model) ==
  LET spaces == SelectSeq(model, living_room_evaluated)
  IN [i \in 1..Len(spaces) |->
       LET raw_name == get_space_name(spaces[i])
           area     == calculate_space_area_living(spaces[i])
           min_area == living_min_area(lower(raw_name))
           reasons  == living_reasons(area, min_area)
       IN CheckResult(spaces[i].GlobalId, raw_name, "living room zone",
                      IF living_passed(area, min_area) THEN "pass" ELSE "fail",
                      [m2 |-> area], [m2 |-> min_area],
                      IF reasons # << >>
                      THEN Comment(<<join(t_semicolon, reasons)>>)
                      ELSE NoComment)]

living_room_compliance(model) ==
  LET spaces == SelectSeq(model, living_room_evaluated)
  IN [i \in 1..Len(spaces) |->
       LET raw_name == get_space_name(spaces[i])
           area     == calculate_space_area_living(spaces[i])
           min_area == living_min_area(lower(raw_name))
           reasons  == living_reasons(area, min_area)
       IN [space_name |-> raw_name, area_m2 |-> area,
           min_required_m2 |-> min_area,
           clearance_ok |-> can_fit_square(area, CLEARANCE_SIDE, CLEARANCE_SIDE),
           result |-> IF living_passed(area, min_area) THEN "pass" ELSE "fail",
           reason |-> IF reasons # << >> THEN join(t_semicolon, reasons)
                      ELSE t_Complies]]

\* ------------------------------------------------------------------------
\* Rule 5: bedroom occupancy
\* ------------------------------------------------------------------------
area_to_occupancy(area_m2) ==
  IF area_m2 < 500 THEN 0
  ELSE IF area_m2 < 800 THEN 1
  ELSE IF area_m2 < 1200 THEN 2
  ELSE 3

\* variant: the boundaries belong to the lower step
_area_to_occupancy_boundary_low(area) ==
  IF area <= 500 THEN 0
  ELSE IF area <= 800 THEN 1
  ELSE IF area <= 1200 THEN 2
  ELSE 3

_area_to_occupancy(area) ==
  IF area < 500 THEN 0
  ELSE IF area < 800 THEN 1
  ELSE IF area < 1200 THEN 2
  ELSE 3

STUDIO_MAX_OCCUPANTS == 2

is_bedroom(space) == any_keyword(lower(get_space_label(space)), bedroom_keywords)
is_living_space(space) == any_keyword(lower(get_space_label(space)), living_keywords)

\* get_spaces_by_keywords(model, bedroom_keywords / living_keywords)
get_bedrooms(model)       == SelectSeq(model, is_bedroom)
get_living_spaces(model)  == SelectSeq(model, is_living_space)

studio_record(space) ==
  LET label     == get_space_label(space)
      area      == calculate_space_area_occupancy(space)
      occupancy == Min(area_to_occupancy(area), STUDIO_MAX_OCCUPANTS)
      passed    == occupancy > 0
  IN CheckResult(space.GlobalId, label, "studio dwelling",
                 IF passed THEN "pass" ELSE "fail",
                 [m2 |-> area, occupants |-> occupancy],
                 [msg |-> "Studio max 2 occupants"],
                 IF passed
                 THEN Comment(<<[msg |-> "Studio dwelling limited to maximum 2 occupants"]>>)
                 ELSE Comment(<<[msg |-> "Area too small for studio", area |-> area]>>))

bedroom_record(space) ==
  LET label     == get_space_label(space)
      area      == calculate_space_area_occupancy(space)
      occupancy == area_to_occupancy(area)
      passed    == occupancy > 0
  IN CheckResult(space.GlobalId, label, "bedroom occupancy",
                 IF passed THEN "pass" ELSE "fail",
                 [m2 |-> area, occupants |-> occupancy],
                 [msg |-> ">=5 m2 (min 1 occupant)"],
                 IF ~passed
                 THEN Comment(<<[msg |-> "Area below minimum 5 m2 for bedroom",
                                 area |-> area]>>)
                 ELSE NoComment)

\* variant: every living space gets a studio record
studio_results_all(living_spaces) ==
  [i \in 1..Len(living_spaces) |-> studio_record(living_spaces[i])]

\* if living_spaces: space = living_spaces[0] ... results.append(...)
studio_results(living_spaces) ==
  IF living_spaces # << >>
  THEN <<studio_record(living_spaces[1])>>
  ELSE << >>

\* variant: the loop over the bedrooms ends with the first failing record
check_bedroom_occupancy_early_exit(model) ==
  LET bedrooms      == get_bedrooms(model)
      living_spaces == get_living_spaces(model)
      records == [i \in 1..Len(bedrooms) |-> bedroom_record(bedrooms[i])]
      fails   == { i \in 1..Len(records) : records[i].check_status = "fail" }
  IN IF Len(bedrooms) = 0
     THEN studio_results(living_spaces)
     ELSE IF fails = {} THEN records
     ELSE [i \in 1..SetMin(fails) |-> records[i]]

check_bedroom_occupancy(model) ==
  LET bedrooms      == get_bedrooms(model)
      living_spaces == get_living_spaces(model)
  IN IF Len(bedrooms) = 0
     THEN studio_results(living_spaces)
     ELSE [i \in 1..Len(bedrooms) |-> bedroom_record(bedrooms[i])]

\* toole.py: _get_spaces_by_keywords with _space_label
_is_bedroom(space) ==
  any_keyword(lower(_space_label(space)), bedroom_keywords)
_is_living_space(space) ==
  any_keyword(lower(_space_label(space)), living_keywords)

\* for space in bedrooms: ... if allowed == 0: return fail
RECURSIVE bedroom_loop(_, _, _, _, _)
bedroom_loop(bedrooms, n, room_areas, occupancy, total_people) ==
  IF n >= Len(bedrooms)
  THEN [result |-> "pass",
        reason |-> [msg |-> "Bedroom areas satisfy occupancy requirements"],
        room_areas |-> room_areas, occupancy |-> occupancy,
        total_allowed_people |-> total_people, measured |-> n]
  ELSE LET space   == bedrooms[n + 1]
           label   == _space_label(space)
           area    == calculate_space_area_occupancy(space)
           allowed == _area_to_occupancy(area)
       IN IF allowed = 0
          THEN [result |-> "fail",
                reason |-> [msg |-> "area is below minimum 5 m2",
                            room |-> label, area |-> area],
                room_areas |-> room_areas, occupancy |-> occupancy,
                total_allowed_people |-> total_people, measured |-> n + 1]
          ELSE bedroom_loop(bedrooms, n + 1,
                            dict_set(room_areas, label, area),
                            dict_set(occupancy, label, allowed),
                            total_people + allowed)

\* variant: the bedrooms are visited from the last to the first
bedroom_occupancy_check_last_first(model) ==
  LET bedrooms      == SelectSeq(model, _is_bedroom)
      living_spaces == SelectSeq(model, _is_living_space)
  IN IF Len(bedrooms) = 0
     THEN IF living_spaces = << >>
          THEN [result |-> "fail",
                reason |-> [msg |-> "No habitable space identified"],
                room_areas |-> EmptyDict, occupancy |-> EmptyDict,
                total_allowed_people |-> 0, measured |-> 0]
          ELSE LET main_space == living_spaces[1]
                   label   == _space_label(main_space)
                   area    == calculate_space_area_occupancy(main_space)
                   allowed == Min(_area_to_occupancy(area), STUDIO_MAX_OCCUPANTS)
               IN [result |-> "pass",
                   reason |-> [msg |-> "Studio dwelling limited to maximum 2 occupants"],
                   room_areas |-> dict_set(EmptyDict, label, area),
                   occupancy |-> dict_set(EmptyDict, label, allowed),
                   total_allowed_people |-> allowed, measured |-> 1]
     ELSE bedroom_loop([i \in 1..Len(bedrooms) |-> bedrooms[Len(bedrooms) + 1 - i]],
                       0, EmptyDict, EmptyDict, 0)

bedroom_occupancy_check(model) ==
  LET bedrooms      == SelectSeq(model, _is_bedroom)
      living_spaces == SelectSeq(model, _is_living_space)
  IN IF Len(bedrooms) = 0
     THEN IF living_spaces = << >>
          THEN [result |-> "fail",
                reason |-> [msg |-> "No habitable space identified"],
                room_areas |-> EmptyDict, occupancy |-> EmptyDict,
                total_allowed_people |-> 0, measured |-> 0]
          ELSE LET main_space == living_spaces[1]
                   label   == _space_label(main_space)
                   area    == calculate_space_area_occupancy(main_space)
                   allowed == Min(_area_to_occupancy(area), STUDIO_MAX_OCCUPANTS)
               IN [result |-> "pass",
                   reason |-> [msg |-> "Studio dwelling limited to maximum 2 occupants"],
                   room_areas |-> dict_set(EmptyDict, label, area),
                   occupancy |-> dict_set(EmptyDict, label, allowed),
                   total_allowed_people |-> allowed, measured |-> 1]
     ELSE bedroom_loop(bedrooms, 0, EmptyDict, EmptyDict, 0)

\* ------------------------------------------------------------------------
\* State: the loaded model, and the last rule call with what it returned
\*   shaped: positions of the spaces create_shape was called on by the call
\* ------------------------------------------------------------------------
VARIABLES model, call, arg, retval, shaped

vars == <<model, call, arg, retval, shaped, history>>

Init ==
  /\ model \in Models
  /\ call = "none"
  /\ arg = 0
  /\ retval = << >>
  /\ shaped = {}
  /\ history = << >>

AllSpaces == 1..Len(model)

\* Evaluation is synchronous and single-threaded: a rule is entered only
\* when no call is outstanding, and its result is handed back before the
\* next one starts.
Idle == call = "none"

Return ==
  /\ call # "none"
  /\ call' = "none"
  /\ arg' = 0
  /\ retval' = << >>
  /\ shaped' = {}
  /\ UNCHANGED <<model, history>>

Call_check_dwelling_area ==
  \E min_area \in MinAreas :
    /\ Idle
    /\ call' = "check_dwelling_area"
    /\ arg' = min_area
    /\ retval' = check_dwelling_area(model, min_area)
    /\ shaped' = AllSpaces
    /\ UNCHANGED <<model, history>>

Call_dwelling_area_check ==
  \E min_area \in MinAreas :
    /\ Idle
    /\ call' = "dwelling_area_check"
    /\ arg' = min_area
    /\ retval' = dwelling_area_check(model, min_area)
    /\ shaped' = AllSpaces
    /\ UNCHANGED <<model, history>>

\* positions of the spaces in a sequence of spaces
Positions(spaces) == { spaces[i].id : i \in 1..Len(spaces) }

Call_check_living_area_height ==
  \E min_height \in MinHeights :
    /\ Idle
    /\ call' = "check_living_area_height"
    /\ arg' = min_height
    /\ retval' = check_living_area_height(model, min_height)
    /\ shaped' = Positions(get_main_living_areas(model))
    /\ UNCHANGED <<model, history>>

Call_living_area_height_check ==
  \E min_height \in MinHeights :
    LET out == living_area_height_check(model, min_height)
    IN /\ Idle
       /\ call' = "living_area_height_check"
       /\ arg' = min_height
       /\ retval' = [result |-> out.result, reason |-> out.reason,
                     room_heights |-> out.room_heights]
       /\ shaped' = Positions(FirstN(get_main_living_areas(model), out.measured))
       /\ UNCHANGED <<model, history>>

Call_check_service_spaces_min_height ==
  \E min_height \in MinHeights :
    /\ Idle
    /\ call' = "check_service_spaces_min_height"
    /\ arg' = min_height
    /\ retval' = check_service_spaces_min_height(model, min_height)
    /\ shaped' = Positions(SelectSeq(model, is_service))
    /\ UNCHANGED <<model, history>>

Call_service_spaces_min_height_check ==
  \E min_height \in MinHeights :
    LET out == service_spaces_min_height_check(model, min_height)
    IN /\ Idle
       /\ call' = "service_spaces_min_height_check"
       /\ arg' = min_height
       /\ retval' = out
       /\ shaped' = Positions(FirstN(SelectSeq(model, is_service),
                                     Len(out.checked_spaces)))
       /\ UNCHANGED <<model, history>>

Call_check_living_room_compliance ==
  /\ Idle
  /\ call' = "check_living_room_compliance"
  /\ arg' = 0
  /\ retval' = check_living_room_compliance(model)
  /\ shaped' = { i \in AllSpaces : ~uses_net_floor_area(model[i]) }
  /\ UNCHANGED <<model, history>>

Call_living_room_compliance ==
  /\ Idle
  /\ call' = "living_room_compliance"
  /\ arg' = 0
  /\ retval' = living_room_compliance(model)
  /\ shaped' = { i \in AllSpaces : ~uses_net_floor_area(model[i]) }
  /\ UNCHANGED <<model, history>>

Call_check_bedroom_occupancy ==
  /\ Idle
  /\ call' = "check_bedroom_occupancy"
  /\ arg' = 0
  /\ retval' = check_bedroom_occupancy(model)
  /\ shaped' = IF Len(get_bedrooms(model)) = 0
               THEN Positions(FirstN(get_living_spaces(model), 1))
               ELSE Positions(get_bedrooms(model))
  /\ UNCHANGED <<model, history>>

Call_bedroom_occupancy_check ==
  LET out == bedroom_occupancy_check(model)
      bedrooms == SelectSeq(model, _is_bedroom)
      evaluated == IF Len(bedrooms) = 0 THEN SelectSeq(model, _is_living_space)
                   ELSE bedrooms
  IN /\ Idle
     /\ call' = "bedroom_occupancy_check"
     /\ arg' = 0
     /\ retval' = [result |-> out.result, reason |-> out.reason,
                   room_areas |-> out.room_areas, occupancy |-> out.occupancy,
                   total_allowed_people |-> out.total_allowed_people]
     /\ shaped' = Positions(FirstN(evaluated, out.measured))
     /\ UNCHANGED <<model, history>>

Next ==
  \/ Call_check_living_room_compliance
  \/ Call_living_room_compliance
  \/ Call_check_bedroom_occupancy
  \/ Call_bedroom_occupancy_check
  \/ Call_check_dwelling_area
  \/ Call_dwelling_area_check
  \/ Call_check_living_area_height
  \/ Call_living_area_height_check
  \/ Call_check_service_spaces_min_height
  \/ Call_service_spaces_min_height_check
  \/ Return

Spec == Init /\ [][Next]_vars

\* ------------------------------------------------------------------------
\* Properties
\* ------------------------------------------------------------------------
\* The label of a space by the documented priority chain
\* long-form name -> short name -> identifier
Label(space) ==
  IF truthy(space.LongName) THEN space.LongName
  ELSE IF truthy(space.Name) THEN space.Name
  ELSE space.GlobalId

LabelHas(space, keywords) == any_keyword(lower(Label(space)), keywords)

\* the records of a check_* result that are about the space at position i
RecordsOf(i) == { j \in 1..Len(retval) : retval[j].element_id = model[i].GlobalId }

CheckerCalls == { "check_dwelling_area", "check_living_area_height",
                  "check_service_spaces_min_height",
                  "check_living_room_compliance", "check_bedroom_occupancy" }

\* C1: check_dwelling_area on a non-empty model: every record has the same
\* status, which is pass exactly when the sum of the measured areas is at
\* least min_area, and the same comment, which is null exactly on pass.
C1_DwellingUniformVerdict ==
  (call = "check_dwelling_area" /\ Len(model) > 0) =>
    LET total == SeqSum([i \in 1..Len(model) |->
                          calculate_space_area_dwelling(model[i])])
        verdict == IF total >= arg THEN "pass" ELSE "fail"
    IN /\ Len(retval) = Len(model)
       /\ \A j \in 1..Len(retval) :
            /\ retval[j].check_status = verdict
            /\ retval[j].comment = retval[1].comment
            /\ retval[j].comment.null <=> (verdict = "pass")

\* a failing dwelling of two spaces: both records were rewritten to fail
C1_Witness ==
  /\ call = "check_dwelling_area"
  /\ Len(retval) = 2
  /\ retval[1].check_status = "fail" /\ retval[2].check_status = "fail"
  /\ ~retval[2].comment.null
  /\ retval[1].actual_value.m2 > 0

\* C2: a space that carries an authoritative (precomputed) area is measured
\* by that value in every rule that measures area, and its mesh is not
\* triangulated.
AreaCalls == { "check_dwelling_area", "dwelling_area_check",
               "check_living_room_compliance", "living_room_compliance",
               "check_bedroom_occupancy", "bedroom_occupancy_check" }

C2_AuthoritativeAreaPreferred ==
  (call \in AreaCalls) =>
    \A i \in AllSpaces :
      model[i].hasNetFloorArea =>
        /\ i \notin shaped
        /\ call \in CheckerCalls =>
             \A j \in RecordsOf(i) :
               retval[j].actual_value.m2 = model[i].NetFloorArea

\* C3: studio branch (no bedroom, some living/studio space): the first
\* living/studio space is evaluated, its occupancy is
\* min(area_to_occupancy(area), 2), and the outcome is pass iff that is > 0.
NoBedroom   == \A i \in AllSpaces : ~LabelHas(model[i], bedroom_keywords)
SomeLiving  == \E i \in AllSpaces : LabelHas(model[i], living_keywords)
FirstLiving ==
  CHOOSE i \in AllSpaces :
    /\ LabelHas(model[i], living_keywords)
    /\ \A k \in 1..(i - 1) : ~LabelHas(model[k], living_keywords)

StepOccupancy(area) ==
  IF area < 500 THEN 0 ELSE IF area < 800 THEN 1
  ELSE IF area < 1200 THEN 2 ELSE 3

C3_StudioBranch ==
  (NoBedroom /\ SomeLiving) =>
    /\ call = "check_bedroom_occupancy" =>
         /\ Len(retval) = 1
         /\ retval[1].element_id = model[FirstLiving].GlobalId
         /\ retval[1].actual_value.occupants =
              Min(StepOccupancy(retval[1].actual_value.m2), 2)
         /\ (retval[1].check_status = "pass") <=> (retval[1].actual_value.occupants > 0)
    /\ call = "bedroom_occupancy_check" =>
         /\ dict_keys(retval.occupancy) = { Label(model[FirstLiving]) }
         /\ retval.total_allowed_people =
              Min(StepOccupancy(dict_get(retval.room_areas, Label(model[FirstLiving]))), 2)
         /\ (retval.result = "pass") <=> (retval.total_allowed_people > 0)

\* C4: with no bedroom and no living/studio space the occupancy rule
\* returns an explicit failure with a diagnostic reason, never an empty or
\* passing result.
C4_NoHabitableSpaceFails ==
  (NoBedroom /\ ~SomeLiving) =>
    /\ call = "bedroom_occupancy_check" =>
         /\ retval.result = "fail"
         /\ retval.reason.msg = "No habitable space identified"
    /\ call = "check_bedroom_occupancy" =>
         /\ Len(retval) > 0
         /\ \A j \in 1..Len(retval) :
              retval[j].check_status = "fail" /\ ~retval[j].comment.null

\* C5 as stated: when no space matches, the dwelling-area rule and the
\* living-area-height rule give an empty collection and no aggregate
\* verdict, in either calling convention.
NoMainLiving ==
  \A i \in AllSpaces :
    ~(truthy(model[i].Name) /\ any_keyword(lower(model[i].Name), main_living_keywords))

C5_EmptyNoVerdict ==
  /\ (call = "check_dwelling_area" /\ Len(model) = 0) => retval = << >>
  /\ (call = "check_living_area_height" /\ NoMainLiving) => retval = << >>
  /\ (call = "dwelling_area_check" /\ Len(model) = 0) =>
       "result" \notin DOMAIN retval
  /\ (call = "living_area_height_check" /\ NoMainLiving) =>
       "result" \notin DOMAIN retval

\* C5 (amended): when no space matches, the list-returning rules
\* check_dwelling_area and check_living_area_height return an empty list;
\* the summary-returning dwelling_area_check reports total 0 with no rooms
\* and passes iff 0 >= min_area, and living_area_height_check reports pass
\* with no rooms.
C5_EmptyByConvention ==
  /\ (call = "check_dwelling_area" /\ Len(model) = 0) => retval = << >>
  /\ (call = "check_living_area_height" /\ NoMainLiving) => retval = << >>
  /\ (call = "dwelling_area_check" /\ Len(model) = 0) =>
       /\ retval.total_area = 0
       /\ retval.room_areas = EmptyDict
       /\ (retval.result = "pass") <=> (0 >= arg)
       /\ retval.result \in {"pass", "fail"}
  /\ (call = "living_area_height_check" /\ NoMainLiving) =>
       /\ retval.result = "pass"
       /\ retval.room_heights = EmptyDict

\* a non-empty model without a main living area, checked for height
C5_Witness ==
  /\ call = "check_living_area_height"
  /\ Len(model) = 2
  /\ NoMainLiving
  /\ retval = << >>

\* C6: with no service-keyword space, service_spaces_min_height_check fails
\* with the "nothing checked" reason and empty room_heights/checked_spaces,
\* and check_service_spaces_min_height returns an empty list; with at least
\* one such space neither outcome occurs.
NoServiceSpace == \A i \in AllSpaces : ~LabelHas(model[i], service_keywords)

NothingCheckedMsg ==
  "No bathrooms/kitchens/hallways matched by keywords, nothing checked"

C6_NothingMatched ==
  /\ call = "service_spaces_min_height_check" =>
       /\ NoServiceSpace <=> (retval.reason.msg = NothingCheckedMsg)
       /\ NoServiceSpace =>
            /\ retval.result = "fail"
            /\ retval.room_heights = EmptyDict
            /\ retval.checked_spaces = << >>
       /\ ~NoServiceSpace => retval.checked_spaces # << >>
  /\ call = "check_service_spaces_min_height" =>
       (NoServiceSpace <=> (retval = << >>))

\* a non-empty model without service space, given to the single-shot variant
C6_Witness ==
  /\ call = "service_spaces_min_height_check"
  /\ Len(model) > 0
  /\ NoServiceSpace
  /\ retval.reason.msg = NothingCheckedMsg

\* C7: every rule labels a space by the chain long-form name -> short name
\* -> identifier, classifies on that label and reports it as element_name;
\* a space whose long-form name contains a rule's keyword is matched by
\* the rule whatever its short name.
C7_LabelChain ==
  /\ call \in CheckerCalls =>
       \A i \in AllSpaces : \A j \in RecordsOf(i) :
         retval[j].element_name = Label(model[i]) /\ retval[j].element_name # << >>
  /\ call = "check_living_area_height" =>
       \A i \in AllSpaces :
         LabelHas(model[i], main_living_keywords) => RecordsOf(i) # {}
  /\ call = "check_service_spaces_min_height" =>
       \A i \in AllSpaces :
         LabelHas(model[i], service_keywords) => RecordsOf(i) # {}

\* C8: the height rules emit exactly one record per space their keyword
\* filter matches, pass iff that space's height >= min_height, with a null
\* comment exactly on pass.
HeightRuleMatches(space) ==
  IF call = "check_living_area_height"
  THEN truthy(space.Name) /\ any_keyword(lower(space.Name), main_living_keywords)
  ELSE LabelHas(space, service_keywords)

ZExtent(space) ==
  IF ~space.shape.ok \/ Len(space.shape.verts) < 3 THEN 0
  ELSE LET zs == { space.shape.verts[3 * k] : k \in 1..(Len(space.shape.verts) \div 3) }
       IN SetMax(zs) - SetMin(zs)

C8_HeightPerSpace ==
  (call \in {"check_living_area_height", "check_service_spaces_min_height"}) =>
    /\ \A i \in AllSpaces :
         Cardinality(RecordsOf(i)) = IF HeightRuleMatches(model[i]) THEN 1 ELSE 0
    /\ Len(retval) = Cardinality({ i \in AllSpaces : HeightRuleMatches(model[i]) })
    /\ \A i \in AllSpaces : \A j \in RecordsOf(i) :
         /\ (retval[j].check_status = "pass") <=> (ZExtent(model[i]) >= arg)
         /\ retval[j].check_status \in {"pass", "fail"}
         /\ retval[j].comment.null <=> (retval[j].check_status = "pass")

\* two matched spaces with different outcomes, one of them exactly at the
\* minimum height
C8_Witness ==
  /\ call \in {"check_living_area_height", "check_service_spaces_min_height"}
  /\ Len(retval) = 2
  /\ retval[1].check_status # retval[2].check_status
  /\ \E j \in 1..2 : retval[j].check_status = "pass" /\ retval[j].actual_value.m = arg

\* C9: living-room rule: required area is 14.0 when the lower-cased label
\* contains 'kitchen' and 10.0 otherwise; pass iff area >= required and
\* area >= 2.4 * 2.4.
C9_LivingRoomThresholds ==
  /\ call = "check_living_room_compliance" =>
       \A j \in 1..Len(retval) :
         LET required == IF contains(lower(retval[j].element_name), kw_kitchen)
                         THEN 1400 ELSE 1000
             area == retval[j].actual_value.m2
         IN /\ retval[j].required_value.m2 = required
            /\ (retval[j].check_status = "pass") <=> (area >= required /\ area >= 576)
            /\ retval[j].check_status \in {"pass", "fail"}
  /\ call = "living_room_compliance" =>
       \A j \in 1..Len(retval) :
         LET required == IF contains(lower(retval[j].space_name), kw_kitchen)
                         THEN 1400 ELSE 1000
             area == retval[j].area_m2
         IN /\ retval[j].min_required_m2 = required
            /\ (retval[j].result = "pass") <=> (area >= required /\ area >= 576)
            /\ retval[j].result \in {"pass", "fail"}

\* a living+kitchen space of 12 m2: above 10 but below 14, so it fails
C9_Witness ==
  /\ call = "check_living_room_compliance"
  /\ \E j \in 1..Len(retval) :
       /\ contains(lower(retval[j].element_name), kw_kitchen)
       /\ retval[j].actual_value.m2 = 1200
       /\ retval[j].check_status = "fail"

\* C10: living-room rule: a record is emitted for a space iff its
\* lower-cased label contains 'living' and its measured area is > 0;
\* spaces of area <= 0 get no record at all.
MeasuredLivingArea(space) ==
  IF space.hasNetFloorArea /\ space.NetFloorArea # 0 THEN space.NetFloorArea
  ELSE mesh_area_indexed(space.shape)

C10_LivingRoomEmission ==
  (call = "check_living_room_compliance") =>
    /\ \A i \in AllSpaces :
         (RecordsOf(i) # {}) <=>
           (LabelHas(model[i], {kw_living}) /\ MeasuredLivingArea(model[i]) > 0)
    /\ \A i \in AllSpaces : Cardinality(RecordsOf(i)) <= 1
    /\ Len(retval) = Cardinality({ i \in AllSpaces : RecordsOf(i) # {} })

\* a 'living' space whose geometry cannot be extracted, next to one that is
\* reported: the first gets neither pass nor fail
C10_Witness ==
  /\ call = "check_living_room_compliance"
  /\ Len(model) = 2
  /\ LabelHas(model[1], {kw_living}) /\ ~model[1].shape.ok
  /\ Len(retval) = 1
  /\ retval[1].element_id = model[2].GlobalId

\* C11: living-room rule: a record's comment is null exactly when the
\* record passes; on fail it is the messages of exactly the violated
\* conditions -- area below required first, clearance not met second --
\* joined by "; ", with no message for a condition that held.
C11_LivingComment ==
  (call = "check_living_room_compliance") =>
    \A j \in 1..Len(retval) :
      LET area     == retval[j].actual_value.m2
          required == retval[j].required_value.m2
          low      == area < required
          tight    == area < 576
          expected == IF low /\ tight
                      THEN area_message(area, required) \o t_semicolon \o t_no_square
                      ELSE IF low THEN area_message(area, required)
                      ELSE t_no_square
      IN /\ retval[j].comment.null <=> (retval[j].check_status = "pass")
         /\ retval[j].comment.null <=> (~low /\ ~tight)
         /\ ~retval[j].comment.null => retval[j].comment.parts = <<expected>>

\* one record failing on area alone (12 m2 living+kitchen) and one failing
\* on both conditions (5 m2), each with the text the code prints
C11_Witness ==
  /\ call = "check_living_room_compliance"
  /\ Len(retval) = 2
  /\ retval[1].comment.parts = <<
    <<"A","r","e","a"," ","1","2",".","0","0"," ","m","²"," ","<"," ","r",
      "e","q","u","i","r","e","d"," ","1","4",".","0","0"," ","m","²">> >>
  /\ retval[2].comment.parts = <<
    <<"A","r","e","a"," ","5",".","0","0"," ","m","²"," ","<"," ","r","e",
      "q","u","i","r","e","d"," ","1","0",".","0","0"," ","m","²",";"," ",
      "D","o","e","s"," ","n","o","t"," ","a","l","l","o","w"," ","2",".",
      "4","0"," ","m"," ","x"," ","2",".","4","0"," ","m"," ","s","q","u",
      "a","r","e"," ","(","a","p","p","r","o","x",")">> >>

\* ------------------------------------------------------------------------
\* The occupancy mapping on its own: an area is drawn, and either
\* implementation is applied to it
\* ------------------------------------------------------------------------
MaxAreaSteps == 60

\* areas from 0 to 15 m2 in steps of 0.25 m2, and the hundredths on either
\* side of the three thresholds
AreaInputs ==
  { 25 * k : k \in 0..MaxAreaSteps }
    \cup { 499, 500, 501, 799, 800, 801, 1199, 1200, 1201 }

InitOccupancy ==
  /\ model = << >>
  /\ call = "none"
  /\ arg \in AreaInputs
  /\ retval = << >>
  /\ shaped = {}
  /\ history = << >>

Call_area_to_occupancy ==
  /\ Idle
  /\ call' = "area_to_occupancy"
  /\ retval' = area_to_occupancy(arg)
  /\ UNCHANGED <<model, arg, shaped, history>>

Call__area_to_occupancy ==
  /\ Idle
  /\ call' = "_area_to_occupancy"
  /\ retval' = _area_to_occupancy(arg)
  /\ UNCHANGED <<model, arg, shaped, history>>

ReturnOccupancy ==
  /\ call # "none"
  /\ call' = "none"
  /\ retval' = << >>
  /\ UNCHANGED <<model, arg, shaped, history>>

NextOccupancy ==
  \/ Call_area_to_occupancy
  \/ Call__area_to_occupancy
  \/ ReturnOccupancy

SpecOccupancy == InitOccupancy /\ [][NextOccupancy]_vars

\* C12: both area_to_occupancy and _area_to_occupancy are the step
\* function 0 below 5.0, 1 on [5.0, 8.0), 2 on [8.0, 12.0), 3 from 12.0
\* (each boundary belongs to the higher step), non-decreasing in area, and
\* they give the same value on every area.
C12_StepFunction ==
  (call \in {"area_to_occupancy", "_area_to_occupancy"}) =>
    /\ retval = (IF arg >= 1200 THEN 3 ELSE IF arg >= 800 THEN 2
                 ELSE IF arg >= 500 THEN 1 ELSE 0)
    /\ \A a \in AreaInputs :
         /\ a <= arg => /\ area_to_occupancy(a) <= retval
                        /\ _area_to_occupancy(a) <= retval
         /\ a >= arg => /\ area_to_occupancy(a) >= retval
                        /\ _area_to_occupancy(a) >= retval
    /\ retval = area_to_occupancy(arg)
    /\ retval = _area_to_occupancy(arg)

\* the boundary 8.0 itself, mapped to the higher step by the second
\* implementation
C12_Witness ==
  /\ call = "_area_to_occupancy"
  /\ arg = 800
  /\ retval = 2

\* C13: bedroom_occupancy_check with at least one bedroom: the result is
\* fail iff some bedroom has occupancy 0; on fail the evaluation stops at
\* the first such bedroom in model order, total_allowed_people is the sum
\* of the occupancies of the bedrooms before it and room_areas/occupancy
\* hold only those bedrooms; on pass the total is the sum over all bedrooms.
IsBedroomAt(i) == LabelHas(model[i], bedroom_keywords)

\* positions of the bedrooms, in model order
BedroomPositions == SelectSeq([i \in 1..Len(model) |-> i], IsBedroomAt)

\* occupancy of a space by the area this rule measures on its mesh
MeshOccupancy(space) == StepOccupancy(mesh_area_dist(space.shape))

ZeroBedrooms ==
  { k \in 1..Len(BedroomPositions) :
      MeshOccupancy(model[BedroomPositions[k]]) = 0 }

\* number of bedrooms that precede the first one with occupancy 0
BedroomsBeforeStop ==
  IF ZeroBedrooms = {} THEN Len(BedroomPositions) ELSE SetMin(ZeroBedrooms) - 1

C13_AggregatingEarlyExit ==
  (call = "bedroom_occupancy_check" /\ ~NoBedroom) =>
    LET before == 1..BedroomsBeforeStop
        visited == 1..Min(BedroomsBeforeStop + 1, Len(BedroomPositions))
    IN /\ (retval.result = "fail") <=> (ZeroBedrooms # {})
       /\ (retval.result = "pass") <=> (ZeroBedrooms = {})
       /\ retval.total_allowed_people =
            SeqSum([k \in before |-> MeshOccupancy(model[BedroomPositions[k]])])
       /\ dict_keys(retval.room_areas) =
            { Label(model[BedroomPositions[k]]) : k \in before }
       /\ dict_keys(retval.occupancy) =
            { Label(model[BedroomPositions[k]]) : k \in before }
       /\ shaped = { BedroomPositions[k] : k \in visited }

\* a bedroom of 7 m2 followed by one of 4 m2: fail, with the first
\* bedroom's one occupant as the total so far
C13_Witness ==
  /\ call = "bedroom_occupancy_check"
  /\ Len(BedroomPositions) = 2
  /\ retval.result = "fail"
  /\ retval.total_allowed_people = 1
  /\ Len(retval.room_areas) = 1

\* C14: check_bedroom_occupancy with at least one bedroom: one record per
\* bedroom-keyword space, in model order and whatever the earlier records
\* say, and each record passes iff that bedroom's own occupancy is > 0
\* (its area is at least 5.0).
C14_PerSpaceNoEarlyExit ==
  (call = "check_bedroom_occupancy" /\ ~NoBedroom) =>
    /\ Len(retval) = Len(BedroomPositions)
    /\ \A k \in 1..Len(BedroomPositions) :
         LET space == model[BedroomPositions[k]]
         IN /\ retval[k].element_id = space.GlobalId
            /\ (retval[k].check_status = "pass") <=> (MeshOccupancy(space) > 0)
            /\ (retval[k].check_status = "pass") <=> (retval[k].actual_value.m2 >= 500)
            /\ retval[k].check_status \in {"pass", "fail"}
            /\ retval[k].actual_value.occupants = MeshOccupancy(space)

\* a bedroom of 4 m2 followed by one of 7 m2: the first record fails and
\* the second is still emitted, and passes
C14_Witness ==
  /\ call = "check_bedroom_occupancy"
  /\ Len(retval) = 2
  /\ retval[1].check_status = "fail"
  /\ retval[2].check_status = "pass"
  /\ retval[2].element_id = model[2].GlobalId

\* C15 as stated: when geometry extraction fails or the mesh is empty for a
\* space a rule evaluates, the rule returns normally with that space
\* measured as 0, and every other space the rule evaluates is still
\* evaluated -- in every rule, of either calling convention.
Degraded(space) == ~space.shape.ok \/ space.shape.verts = << >>

LivingRoomCalls == { "check_living_room_compliance", "living_room_compliance" }

EarlyExitCalls == { "living_area_height_check",
                    "service_spaces_min_height_check",
                    "bedroom_occupancy_check" }

\* the space at position i is one the called rule evaluates
InScope(i) ==
  CASE call \in {"check_dwelling_area", "dwelling_area_check"} \cup LivingRoomCalls
         -> TRUE
    [] call \in {"check_living_area_height", "living_area_height_check"}
         -> /\ truthy(model[i].Name)
            /\ any_keyword(lower(model[i].Name), main_living_keywords)
    [] call \in {"check_service_spaces_min_height", "service_spaces_min_height_check"}
         -> LabelHas(model[i], service_keywords)
    [] call \in {"check_bedroom_occupancy", "bedroom_occupancy_check"}
         -> IF NoBedroom THEN SomeLiving /\ i = FirstLiving ELSE IsBedroomAt(i)
    [] OTHER -> FALSE

Scope == { i \in AllSpaces : InScope(i) }

\* the rule measures the space at position i on its mesh
MeshMeasured(i) ==
  ~(call \in LivingRoomCalls /\ model[i].hasNetFloorArea /\ model[i].NetFloorArea # 0)

DegradedInScope == { i \in Scope : Degraded(model[i]) /\ MeshMeasured(i) }

\* what is reported about a degraded space is the measurement 0
ZeroMeasured ==
  /\ call \in CheckerCalls \ LivingRoomCalls =>
       \A i \in DegradedInScope :
         /\ RecordsOf(i) # {}
         /\ \A j \in RecordsOf(i) :
              IF call \in {"check_living_area_height", "check_service_spaces_min_height"}
              THEN retval[j].actual_value.m = 0
              ELSE retval[j].actual_value.m2 = 0
  /\ call = "check_living_room_compliance" =>
       \A i \in DegradedInScope : RecordsOf(i) = {}
  /\ call = "dwelling_area_check" =>
       retval.total_area =
         SeqSum([i \in AllSpaces |-> IF Degraded(model[i]) THEN 0
                                     ELSE mesh_area_indexed(model[i].shape)])
  /\ call = "living_area_height_check" =>
       \A i \in DegradedInScope \cap shaped :
         retval.result = "fail" /\ dict_get(retval.room_heights, model[i].Name) = 0
  /\ call = "service_spaces_min_height_check" =>
       \A i \in DegradedInScope \cap shaped :
         /\ retval.result = "fail"
         /\ dict_get(retval.room_heights, Label(model[i])) = 0
  /\ call = "bedroom_occupancy_check" =>
       \A i \in DegradedInScope \cap shaped :
         IF NoBedroom
         THEN dict_get(retval.room_areas, Label(model[i])) = 0
         ELSE retval.result = "fail"

C15_GeometryFailureContinues ==
  (call # "none" /\ DegradedInScope # {}) =>
    /\ ZeroMeasured
    /\ shaped = { i \in Scope : MeshMeasured(i) }

\* C15 (amended): a degraded space is measured as 0 and the rule returns
\* normally.  The list-returning rules, dwelling_area_check and
\* living_room_compliance still evaluate every other space of their scope;
\* living_area_height_check, service_spaces_min_height_check and
\* bedroom_occupancy_check evaluate the spaces of their scope in model
\* order up to and including the first one that fails its own test (as a
\* space measured 0 does), and no later one.
StopsEvaluation(i) ==
  CASE call \in {"living_area_height_check", "service_spaces_min_height_check"}
         -> ZExtent(model[i]) < arg
    [] call = "bedroom_occupancy_check"
         -> ~NoBedroom /\ MeshOccupancy(model[i]) = 0
    [] OTHER -> FALSE

VisitedScope ==
  { i \in Scope : \A k \in Scope : k < i => ~StopsEvaluation(k) }

C15_GeometryFailureIsZero ==
  (call # "none" /\ DegradedInScope # {}) =>
    /\ ZeroMeasured
    /\ call \notin EarlyExitCalls => shaped = { i \in Scope : MeshMeasured(i) }
    /\ call \in EarlyExitCalls => shaped = VisitedScope

\* a hall with an empty mesh ahead of a living+kitchen space: the service
\* rule reports height 0 for the first and still evaluates the second
C15_Witness ==
  /\ call = "check_service_spaces_min_height"
  /\ Len(model) = 2
  /\ DegradedInScope = {1}
  /\ Len(retval) = 2
  /\ retval[1].actual_value.m = 0 /\ retval[1].check_status = "fail"
  /\ retval[2].check_status = "pass"

\* C16: for every check_* rule the element_ids of the returned list are
\* the model's spaces restricted to those the rule evaluates: in the
\* model's order, each evaluated space exactly once, none merged with or
\* replaced by another even when their labels are equal.
EmitsRecord(i) ==
  IF call = "check_living_room_compliance"
  THEN LabelHas(model[i], {kw_living}) /\ MeasuredLivingArea(model[i]) > 0
  ELSE InScope(i)

EvaluatedPositions == SelectSeq([i \in 1..Len(model) |-> i], EmitsRecord)

C16_ModelOrder ==
  (call \in CheckerCalls) =>
    /\ Len(retval) = Len(EvaluatedPositions)
    /\ \A j \in 1..Len(retval) :
         retval[j].element_id = model[EvaluatedPositions[j]].GlobalId
    /\ \A j, k \in 1..Len(retval) :
         j # k => retval[j].element_id # retval[k].element_id

\* two service spaces with the same label: two records, first space first
C16_Witness ==
  /\ call = "check_service_spaces_min_height"
  /\ Len(retval) = 2
  /\ retval[1].element_name = retval[2].element_name
  /\ retval[1].actual_value # retval[2].actual_value
  /\ retval[1].element_id = model[1].GlobalId
  /\ retval[2].element_id = model[2].GlobalId

\* ------------------------------------------------------------------------
\* C17: for the two height rules the tool convention and the checker
\* convention agree on the same model and min_height:
\* living_area_height_check returns 'pass' exactly when
\* check_living_area_height returns no record with status 'fail', and
\* service_spaces_min_height_check returns 'pass' exactly when
\* check_service_spaces_min_height returns a non-empty list with no 'fail'
\* record.
\* ------------------------------------------------------------------------
HasFailRecord(records) ==
  \E i \in 1..Len(records) : records[i].check_status = "fail"

C17_ToolMatchesChecker ==
  /\ call = "living_area_height_check" =>
       (retval.result = "pass"
          <=> ~HasFailRecord(check_living_area_height(model, arg)))
  /\ call = "check_living_area_height" =>
       (~HasFailRecord(retval)
          <=> living_area_height_check(model, arg).result = "pass")
  /\ call = "service_spaces_min_height_check" =>
       (retval.result = "pass"
          <=> LET records == check_service_spaces_min_height(model, arg)
              IN records # << >> /\ ~HasFailRecord(records))
  /\ call = "check_service_spaces_min_height" =>
       ((retval # << >> /\ ~HasFailRecord(retval))
          <=> service_spaces_min_height_check(model, arg).result = "pass")

\* the tool stops at the first of two living areas, which is too low, while
\* the checker goes on to the second, which is high enough
C17_Witness ==
  /\ call = "living_area_height_check"
  /\ retval.result = "fail"
  /\ Len(retval.room_heights) = 1
  /\ LET records == check_living_area_height(model, arg)
     IN /\ Len(records) = 2
        /\ records[1].check_status = "fail"
        /\ records[2].check_status = "pass"

\* ------------------------------------------------------------------------
\* Repeated runs: the rules are called one after the other on the same
\* loaded model, each with its default parameters, and every completed call
\* is remembered (the last two of them)
\* ------------------------------------------------------------------------
MaxSpacesRerun == 2

\* min_area=36.0, min_height=2.50, min_height=2.20
DEFAULT_MIN_AREA           == 3600
DEFAULT_LIVING_MIN_HEIGHT  == 25
DEFAULT_SERVICE_MIN_HEIGHT == 22

\* a living/kitchen, a bedroom, a hall and a living room without geometry
RerunKinds == {2, 4, 6, 9}

RerunModels ==
  UNION { { [i \in 1..n |-> SpaceAt(ks[i], i)] : ks \in [1..n -> RerunKinds] }
          : n \in 0..MaxSpacesRerun }

InitRerun ==
  /\ model \in RerunModels
  /\ call = "none"
  /\ arg = 0
  /\ retval = << >>
  /\ shaped = {}
  /\ history = << >>

Rerun_check_dwelling_area ==
  Call_check_dwelling_area /\ arg' = DEFAULT_MIN_AREA

Rerun_dwelling_area_check ==
  Call_dwelling_area_check /\ arg' = DEFAULT_MIN_AREA

Rerun_check_living_area_height ==
  Call_check_living_area_height /\ arg' = DEFAULT_LIVING_MIN_HEIGHT

Rerun_living_area_height_check ==
  Call_living_area_height_check /\ arg' = DEFAULT_LIVING_MIN_HEIGHT

Rerun_check_service_spaces_min_height ==
  Call_check_service_spaces_min_height /\ arg' = DEFAULT_SERVICE_MIN_HEIGHT

Rerun_service_spaces_min_height_check ==
  Call_service_spaces_min_height_check /\ arg' = DEFAULT_SERVICE_MIN_HEIGHT

\* all_results[check_name] = results
ReturnRecorded ==
  LET done == [call |-> call, arg |-> arg, retval |-> retval]
  IN /\ call # "none"
     /\ history' = IF Len(history) < 2 THEN Append(history, done)
                   ELSE <<history[2], done>>
     /\ call' = "none"
     /\ arg' = 0
     /\ retval' = << >>
     /\ shaped' = {}
     /\ UNCHANGED model

NextRerun ==
  \/ Rerun_check_dwelling_area
  \/ Rerun_dwelling_area_check
  \/ Rerun_check_living_area_height
  \/ Rerun_living_area_height_check
  \/ Rerun_check_service_spaces_min_height
  \/ Rerun_service_spaces_min_height_check
  \/ Call_check_living_room_compliance
  \/ Call_living_room_compliance
  \/ Call_check_bedroom_occupancy
  \/ Call_bedroom_occupancy_check
  \/ ReturnRecorded

SpecRerun == InitRerun /\ [][NextRerun]_vars

LabelledHall(space) == contains(lower(Label(space)), kw_hall)

LabelledLivingKitchen(space) == Label(space) = t_Living_Kitchen

HasRecordFor(records, space) ==
  \E j \in 1..Len(records) : records[j].element_id = space.GlobalId

C19_MultiRuleRecords ==
  /\ call \in {"check_living_area_height", "check_service_spaces_min_height"} =>
       \A i \in AllSpaces :
         (LabelledHall(model[i]) \/ LabelledLivingKitchen(model[i]))
           => HasRecordFor(retval, model[i])
  /\ call = "check_living_room_compliance" =>
       \A i \in AllSpaces :
         LabelledLivingKitchen(model[i]) => HasRecordFor(retval, model[i])

\* ------------------------------------------------------------------------
\* The area functions on their own: one space whose mesh is a list of up to
\* MaxTriangles triangles over a fixed set of vertices
\* ------------------------------------------------------------------------
MaxTriangles == 3

\* vertices 0..7: x, y, z of each
AreaVerts == << 0,0,0,  64,0,0,  0,64,0,  128,0,0,
                2,0,0,  0,1,0,   3,0,0,   0,4,0 >>

\* right triangles of area 2048, 4096, 1 and 6, a triangle with its three
\* vertices on a line, a triangle naming one vertex the mesh does not have,
\* and a triangle naming three of them
AreaTriangles == << <<0, 1, 2>>, <<0, 3, 2>>, <<0, 4, 5>>, <<0, 6, 7>>,
                    <<0, 4, 6>>, <<0, 1, 9>>, <<8, 9, 10>> >>

\* what follows the last whole triangle in the index sequence
FaceTails == { << >>, <<0>>, <<0, 1>> }

\* shape.geometry.faces of the mesh made of the triangles ts, in that order
FacesOf(ts) ==
  [k \in 1..(3 * Len(ts)) |->
     AreaTriangles[ts[((k - 1) \div 3) + 1]][((k - 1) % 3) + 1]]

AreaShapes ==
  {NoShape} \cup
  UNION { { [ok |-> TRUE, verts |-> AreaVerts, faces |-> FacesOf(ts) \o tail] :
              ts \in [1..n -> 1..Len(AreaTriangles)], tail \in FaceTails }
          : n \in 0..MaxTriangles }

InitArea ==
  /\ model \in { <<[SpaceAt(1, 1) EXCEPT !.shape = sh]>> : sh \in AreaShapes }
  /\ call = "none"
  /\ arg = 0
  /\ retval = << >>
  /\ shaped = {}
  /\ history = << >>

Call_calculate_space_area ==
  /\ Idle
  /\ call' = "calculate_space_area"
  /\ arg' = 0
  /\ retval' = calculate_space_area_dwelling(model[1])
  /\ shaped' = {1}
  /\ UNCHANGED <<model, history>>

Call__calculate_space_area ==
  /\ Idle
  /\ call' = "_calculate_space_area"
  /\ arg' = 0
  /\ retval' = calculate_space_area_occupancy(model[1])
  /\ shaped' = {1}
  /\ UNCHANGED <<model, history>>

NextArea ==
  \/ Call_calculate_space_area
  \/ Call__calculate_space_area
  \/ Return

SpecArea == InitArea /\ [][NextArea]_vars

\* ------------------------------------------------------------------------
\* C20: the mesh area is non-negative for every triangle mesh, is 0 for a
\* mesh with zero triangles, and is unchanged by any reordering of the
\* mesh's triangles.
\* ------------------------------------------------------------------------
TriangleCount(shape) == Len(shape.faces) \div 3

\* the same mesh with its triangles in the order p[1], p[2], ...
Reordered(shape, p) ==
  [shape EXCEPT !.faces =
     [k \in 1..Len(shape.faces) |->
        IF k > 3 * TriangleCount(shape) THEN shape.faces[k]
        ELSE shape.faces[3 * (p[((k - 1) \div 3) + 1] - 1) + ((k - 1) % 3) + 1]]]

AreaAsCalled(shape) ==
  IF call = "calculate_space_area" THEN mesh_area_indexed(shape)
  ELSE mesh_area_dist(shape)

C20_SurfaceArea ==
  call \in {"calculate_space_area", "_calculate_space_area"} =>
    LET shape == model[1].shape
    IN /\ retval >= 0
       /\ TriangleCount(shape) = 0 => retval = 0
       /\ \A p \in Permutations(1..TriangleCount(shape)) :
            AreaAsCalled(Reordered(shape, p)) = retval

\* what does hold: non-negative, 0 without triangles, and unchanged by a
\* reordering as long as no partial sum needs rounding
C20_SurfaceAreaExactSums ==
  call \in {"calculate_space_area", "_calculate_space_area"} =>
    LET shape == model[1].shape
    IN /\ retval >= 0
       /\ TriangleCount(shape) = 0 => retval = 0
       /\ retval < 2^MantissaBits =>
            \A p \in Permutations(1..TriangleCount(shape)) :
              AreaAsCalled(Reordered(shape, p)) = retval

\* ------------------------------------------------------------------------
\* The height function on its own: one space whose mesh has up to
\* MaxVertices vertices, the flat coordinate list possibly ending in an
\* incomplete vertex
\* ------------------------------------------------------------------------
MaxVertices == 3

HeightVertexPool == { <<0, 0, 0>>, <<3, 1, 24>>, <<1, 4, -5>>, <<2, 2, 24>> }

HeightTails == { << >>, <<7>>, <<7, 8>> }

\* shape.geometry.verts: the coordinates of the vertices vs one after the
\* other
FlatVerts(vs) == [k \in 1..(3 * Len(vs)) |-> vs[((k - 1) \div 3) + 1][((k - 1) % 3) + 1]]

HeightShapes ==
  {NoShape} \cup
  UNION { { [ok |-> TRUE, verts |-> FlatVerts(vs) \o tail, faces |-> << >>] :
              vs \in [1..n -> HeightVertexPool], tail \in HeightTails }
          : n \in 0..MaxVertices }

InitHeight ==
  /\ model \in { <<[SpaceAt(1, 1) EXCEPT !.shape = sh]>> : sh \in HeightShapes }
  /\ call = "none"
  /\ arg = 0
  /\ retval = << >>
  /\ shaped = {}
  /\ history = << >>

Call_get_space_height ==
  /\ Idle
  /\ call' = "get_space_height"
  /\ arg' = 0
  /\ retval' = get_space_height(model[1])
  /\ shaped' = {1}
  /\ UNCHANGED <<model, history>>

NextHeight ==
  \/ Call_get_space_height
  \/ Return

SpecHeight == InitHeight /\ [][NextHeight]_vars

\* ------------------------------------------------------------------------
\* C21: the height of a space is max(z) - min(z) over the vertices of its
\* mesh, is 0 for a mesh with no vertices, is non-negative, and is unchanged
\* by any X/Y translation of all vertices and by any reordering of the
\* vertices.
\* ------------------------------------------------------------------------
VertexCount(shape) == Len(shape.verts) \div 3

\* z of the k-th vertex
VertexZ(shape, k) == shape.verts[3 * k]

Translations == { <<0, 0>>, <<5, 0>>, <<0, -3>>, <<-2, 7>> }

\* every x moved by d[1] and every y by d[2]
Translated(shape, d) ==
  [shape EXCEPT !.verts =
     [k \in 1..Len(shape.verts) |->
        IF k % 3 = 1 THEN shape.verts[k] + d[1]
        ELSE IF k % 3 = 2 THEN shape.verts[k] + d[2]
        ELSE shape.verts[k]]]

\* the complete vertices in the order p[1], p[2], ...
VerticesReordered(shape, p) ==
  [shape EXCEPT !.verts =
     [k \in 1..Len(shape.verts) |->
        IF k > 3 * VertexCount(shape) THEN shape.verts[k]
        ELSE shape.verts[3 * (p[((k - 1) \div 3) + 1] - 1) + ((k - 1) % 3) + 1]]]

HeightOfShape(shape) == get_space_height([model[1] EXCEPT !.shape = shape])

C21_ClearHeight ==
  call = "get_space_height" =>
    LET shape == model[1].shape
        n     == VertexCount(shape)
    IN /\ retval >= 0
       /\ n = 0 => retval = 0
       /\ n > 0 =>
            /\ \E hi, lo \in 1..n :
                 /\ \A k \in 1..n : /\ VertexZ(shape, k) <= VertexZ(shape, hi)
                                     /\ VertexZ(shape, k) >= VertexZ(shape, lo)
                 /\ retval = VertexZ(shape, hi) - VertexZ(shape, lo)
       /\ \A d \in Translations : HeightOfShape(Translated(shape, d)) = retval
       /\ \A p \in Permutations(1..n) :
            HeightOfShape(VerticesReordered(shape, p)) = retval

\* three vertices at different heights, the highest neither first nor last
C21_Witness ==
  /\ call = "get_space_height"
  /\ VertexCount(model[1].shape) = 3
  /\ VertexZ(model[1].shape, 1) = 0
  /\ VertexZ(model[1].shape, 2) = 24
  /\ VertexZ(model[1].shape, 3) = -5
  /\ retval = 29

\* ------------------------------------------------------------------------
\* C22: the two branches of the occupancy rule exclude each other.  With at
\* least one bedroom-keyword space the result holds bedroom entries only
\* and no living/studio space is evaluated, even one that would fail;
\* without a bedroom the result holds at most one entry, for the first
\* living/studio space, and later living/studio spaces are never evaluated.
\* ------------------------------------------------------------------------
IsLivingSpaceAt(i) == LabelHas(model[i], living_keywords)

LivingSpacePositions == SelectSeq([i \in 1..Len(model) |-> i], IsLivingSpaceAt)

BedroomPositionSet == { BedroomPositions[k] : k \in 1..Len(BedroomPositions) }

FirstLivingSpace ==
  IF LivingSpacePositions = << >> THEN {} ELSE {LivingSpacePositions[1]}

C22_BranchesExclusive ==
  /\ call = "check_bedroom_occupancy" =>
       IF BedroomPositionSet # {}
       THEN /\ \A j \in 1..Len(retval) :
                 \E i \in BedroomPositionSet :
                   retval[j].element_id = model[i].GlobalId
            /\ shaped \subseteq BedroomPositionSet
       ELSE /\ Len(retval) <= 1
            /\ \A j \in 1..Len(retval) :
                 \E i \in FirstLivingSpace :
                   retval[j].element_id = model[i].GlobalId
            /\ shaped \subseteq FirstLivingSpace
  /\ call = "bedroom_occupancy_check" =>
       IF BedroomPositionSet # {}
       THEN /\ dict_keys(retval.room_areas) \subseteq
                 { Label(model[i]) : i \in BedroomPositionSet }
            /\ dict_keys(retval.occupancy) = dict_keys(retval.room_areas)
            /\ shaped \subseteq BedroomPositionSet
       ELSE /\ Len(retval.room_areas) <= 1
            /\ dict_keys(retval.room_areas) \subseteq
                 { Label(model[i]) : i \in FirstLivingSpace }
            /\ dict_keys(retval.occupancy) = dict_keys(retval.room_areas)
            /\ shaped \subseteq FirstLivingSpace

\* a living room without geometry, which would fail, next to a bedroom:
\* only the bedroom is evaluated
C22_Witness ==
  /\ call = "check_bedroom_occupancy"
  /\ Len(model) = 2
  /\ IsLivingSpaceAt(1) /\ ~model[1].shape.ok
  /\ IsBedroomAt(2)
  /\ shaped = {2}
  /\ Len(retval) = 1
  /\ retval[1].element_id = model[2].GlobalId
  /\ retval[1].check_status = "pass"

\* ------------------------------------------------------------------------
\* C23: the area is 0 for the whole mesh when any triangle cannot be read
\* (index sequence length not a multiple of 3, or a vertex index outside the
\* vertex sequence): the areas of the well-formed triangles are discarded,
\* never returned as a partial total.
\* ------------------------------------------------------------------------
IndexOutside(shape) ==
  \E k \in 1..Len(shape.faces) : shape.faces[k] >= VertexCount(shape)

Unreadable(shape) == Len(shape.faces) % 3 # 0 \/ IndexOutside(shape)

C23_UnreadableMeshIsZero ==
  call \in {"calculate_space_area", "_calculate_space_area"} =>
    ((model[1].shape.ok /\ Unreadable(model[1].shape)) => retval = 0)

\* with explicit coordinate indexing the whole mesh does count as 0
C23_IndexedUnreadableIsZero ==
  call = "calculate_space_area" =>
    ((model[1].shape.ok /\ Unreadable(model[1].shape)) => retval = 0)

\* ------------------------------------------------------------------------
\* C24: in the summaries the reported aggregate equals the sum of the
\* per-label mapping returned with it, also when several spaces share a
\* label, and every evaluated space has its own entry in the mapping:
\* total_area = sum of the room_areas values in dwelling_area_check,
\* total_allowed_people = sum of the occupancy values in
\* bedroom_occupancy_check.
\* ------------------------------------------------------------------------
DictSum(d) == SeqSum([i \in 1..Len(d) |-> d[i].value])

C24_AggregateMatchesMapping ==
  /\ call = "dwelling_area_check" =>
       /\ retval.total_area = DictSum(retval.room_areas)
       /\ Len(retval.room_areas) = Cardinality(shaped)
  /\ call = "bedroom_occupancy_check" =>
       /\ retval.total_allowed_people = DictSum(retval.occupancy)
       /\ retval.result = "pass" =>
            Len(retval.occupancy) = Cardinality(shaped)

\* ------------------------------------------------------------------------
\* C25: in the living-room rule the clearance condition never decides an
\* outcome on its own.  For every evaluated space a clearance failure
\* (area < 2.4 * 2.4) implies area < required area, so the status is 'fail'
\* exactly when area < required area, and no comment consists of the
\* clearance message alone.
\* ------------------------------------------------------------------------
ClearanceFails(area) == area < CLEARANCE_SIDE * CLEARANCE_SIDE

C25_ClearanceNeverDecides ==
  /\ call = "check_living_room_compliance" =>
       \A j \in 1..Len(retval) :
         LET area == retval[j].actual_value.m2
             required == retval[j].required_value.m2
         IN /\ ClearanceFails(area) => area < required
            /\ retval[j].check_status = "fail" <=> area < required
            /\ retval[j].comment # Comment(<<t_no_square>>)
  /\ call = "living_room_compliance" =>
       \A j \in 1..Len(retval) :
         LET area == retval[j].area_m2
             required == retval[j].min_required_m2
         IN /\ ~retval[j].clearance_ok <=> ClearanceFails(area)
            /\ ClearanceFails(area) => area < required
            /\ retval[j].result = "fail" <=> area < required
            /\ retval[j].reason # t_no_square

\* a living room of 5.00 m2: the square does not fit and the area is below
\* the 10.00 m2 required, both reported
C25_Witness ==
  /\ call = "living_room_compliance"
  /\ Len(retval) = 1
  /\ retval[1].area_m2 = 500
  /\ retval[1].min_required_m2 = LIVING_MIN_AREA
  /\ ~retval[1].clearance_ok
  /\ retval[1].result = "fail"
  /\ retval[1].reason = join(t_semicolon, <<area_message(500, LIVING_MIN_AREA), t_no_square>>)

====
